---- MODULE Spec2Model ----
(***************************************************************************)
(* A model of PyLOB's LimitOrderBook (src/limit_order_book.py): two price  *)
(* indexed side indices of LimitLevel objects, the order registry, the id   *)
(* counter, the threading.Lock, the traders' accounts and the match         *)
(* history.  Every public method (bid, ask, update, cancel) is a sequence   *)
(* of steps of the calling thread; Spec runs the calls one at a time,       *)
(* SpecTraders does so with a trader on every call, SpecRecording with the *)
(* match history recorded or not, and SpecThreads interleaves the steps of *)
(* several threads.  SpecList runs the methods of the DoublyLinkedList of   *)
(* src/doubly_linked_list.py.                                               *)
(***************************************************************************)
EXTENDS Integers, Sequences, FiniteSets, TLC

\* Bounds of the model.
MaxOrders == 3          \* order ids 0 .. MaxOrders-1 are allocated
MaxPrice == 2           \* prices 1 .. MaxPrice
MaxQty == 2             \* quantities 1 .. MaxQty
NumThreads == 2         \* threads of SpecThreads
MaxThreadOrders == 2    \* order ids allocated in SpecThreads
MaxNodes == 4           \* Node objects made for the DoublyLinkedList

None == "None"
Traders == {"t1", "t2"}
\* The trader arguments of the calls of Spec: no trader, or a trader.
TraderArgs == {None, "t1"}
\* The trader argument of the calls of SpecThreads and of SpecRecording: the
\* default, no trader.
ThreadTraderArgs == {None}
Prices == 1..MaxPrice
Quantities == 1..MaxQty
Threads == 1..NumThreads
MainThread == CHOOSE t \in Threads : \A u \in Threads : t <= u
asset == "APL"
NoLevel == -1
NoNode == 0
Values == {"a", "b"}
Positions == -1 .. MaxNodes + 1
NoOrder == [is_bid |-> FALSE, quantity |-> 0, price |-> 0, id |-> NoLevel, trader |-> None]
NoCall == [op |-> "none"]
EmptyMap == [x \in {} |-> 0]
NoPriceLevel == [is_bid |-> FALSE, level |-> NoLevel]

VARIABLES
    bids, asks,             \* SortedDict price -> LimitLevel (a reference into levels)
    levels,                 \* the LimitLevel objects: [price, orders (deque of ids), quantity]
    orders,                 \* registry id -> Order
    order_id,               \* id of the next order
    lock,                   \* threading.Lock: TRUE while locked
    balance, owned,         \* Trader.balance, Trader.owned
    record_match_history, match_history,
    cancelled,              \* history: ids that cancel removed from the registry
    allocated,              \* history: the ids given to orders, in the order given
    pc, order, best_value, acquire_locks, unlock, call, ret,   \* per thread
    price_level,            \* per thread: cancel's order_tree and price_level
    pre,                    \* history: the book when the call in progress started
    iterations,             \* history: the matching loop's iterations in that call
    dll,                    \* a DoublyLinkedList and the Node objects made for it
    dll_call                \* history: the list's last method call and its outcome

bookvars == <<bids, asks, levels, orders, order_id, lock, balance, owned,
              record_match_history, match_history, cancelled, allocated>>
threadvars == <<pc, order, best_value, price_level, acquire_locks, unlock, call, ret>>
listvars == <<dll, dll_call>>
vars == <<bookvars, threadvars, pre, iterations, listvars>>

----------------------------------------------------------------------------
\* Helpers over finite maps and sets of integers.

Max(S) == CHOOSE x \in S : \A y \in S : y <= x
Min(S) == CHOOSE x \in S : \A y \in S : x <= y
Remove(f, k) == [x \in DOMAIN f \ {k} |-> f[x]]
Put(f, k, v) == [x \in DOMAIN f \cup {k} |-> IF x = k THEN v ELSE f[x]]
Range(s) == {s[i] : i \in DOMAIN s}

\* The book as one value, so that the methods are functions of it.  exc is
\* the exception a method raised ("none": it has not), and iterations is
\* the list of the iterations of the matching loop in the call in progress:
\* the incoming order and the book before and after each.
Book ==
    [bids |-> bids, asks |-> asks, levels |-> levels, orders |-> orders,
     balance |-> balance, owned |-> owned,
     record_match_history |-> record_match_history,
     match_history |-> match_history, cancelled |-> cancelled,
     allocated |-> allocated,
     order_id |-> order_id, lock |-> lock, iterations |-> <<>>, exc |-> "none"]

Order(is_bid, quantity, price, id, trader) ==
    [is_bid |-> is_bid, quantity |-> quantity, price |-> price, id |-> id, trader |-> trader]

LimitLevel(o) == [price |-> o.price, orders |-> <<o.id>>, quantity |-> o.quantity]

\* best_bid / best_ask: the level at the largest bid key / smallest ask key.
best_bid(b) == IF DOMAIN b.bids # {} THEN b.bids[Max(DOMAIN b.bids)] ELSE NoLevel
best_ask(b) == IF DOMAIN b.asks # {} THEN b.asks[Min(DOMAIN b.asks)] ELSE NoLevel

order_tree(b, is_bid) == IF is_bid THEN b.bids ELSE b.asks

\* del order_tree[price]
DelKey(b, is_bid, price) ==
    IF price \notin DOMAIN order_tree(b, is_bid) THEN [b EXCEPT !.exc = "KeyError"]
    ELSE IF is_bid THEN [b EXCEPT !.bids = Remove(@, price)]
    ELSE [b EXCEPT !.asks = Remove(@, price)]

\* Mutant of cancel: the id is taken out of the queue of its level.
cancel_purges(b, oid, trader) ==
    IF oid \in DOMAIN b.orders /\ b.orders[oid].trader = trader
    THEN LET o == b.orders[oid]
             tree == order_tree(b, o.is_bid)
             lv == tree[o.price]
             b1 == [b EXCEPT !.levels[lv].quantity = @ - o.quantity,
                             !.levels[lv].orders = SelectSeq(@, LAMBDA x : x # oid)]
             b2 == IF b1.levels[lv].quantity <= 0
                   THEN DelKey(b1, o.is_bid, b1.levels[lv].price)
                   ELSE b1
         IN  [b2 EXCEPT !.orders = Remove(@, oid), !.cancelled = @ \cup {oid}]
    ELSE b

\* Mutant of cancel: the order's trader is not compared with the trader given.
cancel_any_trader(b, oid, trader) ==
    IF oid \in DOMAIN b.orders
    THEN LET o == b.orders[oid]
             tree == order_tree(b, o.is_bid)
             lv == tree[o.price]
             b1 == [b EXCEPT !.levels[lv].quantity = @ - o.quantity]
             b2 == IF b1.levels[lv].quantity <= 0
                   THEN DelKey(b1, o.is_bid, b1.levels[lv].price)
                   ELSE b1
         IN  [b2 EXCEPT !.orders = Remove(@, oid), !.cancelled = @ \cup {oid}]
    ELSE b

\* cancel(order_id, trader)
cancel(b, oid, trader) ==
    IF oid \in DOMAIN b.orders /\ b.orders[oid].trader = trader
    THEN LET o == b.orders[oid]
             tree == order_tree(b, o.is_bid)
         IN  IF o.price \notin DOMAIN tree THEN [b EXCEPT !.exc = "KeyError"]
             ELSE LET lv == tree[o.price]
                      b1 == [b EXCEPT !.levels[lv].quantity = @ - o.quantity]
                      b2 == IF b1.levels[lv].quantity <= 0
                            THEN DelKey(b1, o.is_bid, b1.levels[lv].price)
                            ELSE b1
                  IN  IF b2.exc # "none" THEN b2
                      ELSE [b2 EXCEPT !.orders = Remove(@, oid),
                                      !.cancelled = @ \cup {oid}]
    ELSE b

\* _pop_limit(limit_level): the popped id in res
_pop_limit(b, lv) ==
    IF Len(b.levels[lv].orders) = 0 THEN [b |-> [b EXCEPT !.exc = "IndexError"], res |-> NoLevel]
    ELSE LET res == Head(b.levels[lv].orders)
             b1 == [b EXCEPT !.levels[lv].orders = Tail(@)]
         IN  IF res \notin DOMAIN b1.orders
             THEN [b |-> [b1 EXCEPT !.exc = "KeyError"], res |-> res]
             ELSE [b |-> [b1 EXCEPT !.levels[lv].quantity = @ - b1.orders[res].quantity],
                   res |-> res]

\* Mutant of _append_limit: the order goes to the front of the queue.
_append_limit_front(b, lv, o) ==
    [b EXCEPT !.levels[lv].orders = <<o.id>> \o @,
              !.levels[lv].quantity = @ + o.quantity]

\* Mutant of _append_limit: the level's quantity is not increased.
_append_limit_no_quantity(b, lv, o) ==
    [b EXCEPT !.levels[lv].orders = Append(@, o.id)]

\* _append_limit(limit_level, order)
_append_limit(b, lv, o) ==
    [b EXCEPT !.levels[lv].orders = Append(@, o.id),
              !.levels[lv].quantity = @ + o.quantity]

\* One trader's side of a fill: balance += cash, owned[asset] += units
\* (the entry is created when absent).
Settle(b, trader, cash, units) ==
    IF trader # None
    THEN [b EXCEPT !.balance[trader] = @ + cash,
                   !.owned[trader] = IF asset \in DOMAIN @
                                     THEN [@ EXCEPT ![asset] = @ + units]
                                     ELSE Put(@, asset, units)]
    ELSE b

\* Mutant of matched_order_multiplier: the sign of the incoming order's side.
matched_order_multiplier_same(o) == IF o.is_bid THEN 1 ELSE -1

order_multiplier(o) == IF o.is_bid THEN 1 ELSE -1
matched_order_multiplier(o) == IF o.is_bid THEN -1 ELSE 1

\* The condition of the while loop of _match_orders.
match_cond(b, o, lv) ==
    /\ b.levels[lv].quantity > 0
    /\ o.quantity > 0
    /\ Len(b.levels[lv].orders) > 0

\* Mutant of settle_fill: the fill is settled at the incoming order's price.
settle_fill_at_own_price(b, o, head_order, units) ==
    LET b1 == Settle(b, o.trader,
                     (-order_multiplier(o)) * o.price * units,
                     order_multiplier(o) * units)
    IN  Settle(b1, head_order.trader,
               (-matched_order_multiplier(o)) * o.price * units,
               matched_order_multiplier(o) * units)

\* Settlement of one fill of `units` at the head order's price: the incoming
\* order's trader first, then the head order's trader.
settle_fill(b, o, head_order, units) ==
    LET b1 == Settle(b, o.trader,
                     (-order_multiplier(o)) * head_order.price * units,
                     order_multiplier(o) * units)
    IN  Settle(b1, head_order.trader,
               (-matched_order_multiplier(o)) * head_order.price * units,
               matched_order_multiplier(o) * units)

\* The quantities after a fill: [order, head_order, level] quantities.
fill_quantities(o, head_order, level_quantity) ==
    IF o.quantity <= head_order.quantity
    THEN [order |-> 0,
          head_order |-> head_order.quantity - o.quantity,
          level |-> level_quantity - o.quantity,
          units |-> o.quantity]
    ELSE [order |-> o.quantity - head_order.quantity,
          head_order |-> 0,
          level |-> level_quantity - head_order.quantity,
          units |-> head_order.quantity]

\* Mutant of pop_filled: the emptied order leaves the registry and stays in
\* the queue.
pop_filled_keep(b, lv) ==
    [b EXCEPT !.orders = Remove(@, Head(b.levels[lv].orders))]

\* Mutant of pop_filled: the emptied order leaves the queue and stays in the
\* registry.
pop_filled_registered(b, lv) == _pop_limit(b, lv).b

\* Removal of a head order that a fill emptied:
\* del self.orders[self._pop_limit(best_value)]
pop_filled(b, lv) ==
    LET r == _pop_limit(b, lv)
    IN  IF r.b.exc # "none" THEN r.b
        ELSE [r.b EXCEPT !.orders = Remove(@, r.res)]

\* Mutant of pop_cancelled: the level's quantity is lowered as for a live
\* order.
pop_cancelled_counted(b, lv) ==
    [b EXCEPT !.levels[lv].orders = Tail(@), !.levels[lv].quantity = @ - 1]

\* The head of the queue is the id of an order that was cancelled:
\* best_value.pop_left()
pop_cancelled(b, lv) == [b EXCEPT !.levels[lv].orders = Tail(@)]

\* Mutant of record_match: nothing is recorded.
record_match_none(b, o, head_order) == b

\* The record of a fill, made before the fill: copies of the two orders (the
\* timestamp of the record is left out).
record_match(b, o, head_order) ==
    IF b.record_match_history
    THEN [b EXCEPT !.match_history =
             Append(@, [incoming_order |-> o, matched_order |-> head_order])]
    ELSE b

\* match_history_prices
match_history_prices(b) ==
    [i \in DOMAIN b.match_history |-> b.match_history[i].matched_order.price]

\* One iteration of the while loop of _match_orders, for the incoming order o
\* (an object of the calling thread) and the level lv: the book and the
\* order after it.
match_body(b, o, lv) ==
    LET head_order_id == Head(b.levels[lv].orders)
    IN  IF head_order_id \notin DOMAIN b.orders
        THEN \* an order that was cancelled: pop_left, and continue
             [b |-> pop_cancelled(b, lv), o |-> o]
        ELSE
          LET head_order == b.orders[head_order_id]
              b0 == record_match(b, o, head_order)
              q  == fill_quantities(o, head_order, b0.levels[lv].quantity)
              b1 == settle_fill(b0, o, head_order, q.units)
              b2 == [b1 EXCEPT !.orders[head_order_id].quantity = q.head_order,
                               !.levels[lv].quantity = q.level]
              o1 == [o EXCEPT !.quantity = q.order]
              b3 == IF o1.quantity = 0 /\ o1.id \in DOMAIN b2.orders
                    THEN cancel(b2, o1.id, None)
                    ELSE b2
              b4 == IF b3.exc = "none" /\ q.head_order = 0 /\ head_order_id \in DOMAIN b3.orders
                    THEN pop_filled(b3, lv)
                    ELSE b3
          IN  [b |-> b4, o |-> o1]

\* Mutant of match_end: the emptied level stays in its index.
match_end_keep(b, o, lv) == b

\* The end of _match_orders, after the loop: an emptied level leaves its index.
match_end(b, o, lv) ==
    IF b.levels[lv].quantity <= 0
       /\ b.levels[lv].price \in DOMAIN order_tree(b, ~o.is_bid)
    THEN DelKey(b, ~o.is_bid, b.levels[lv].price)
    ELSE b

\* Mutant of rest_order: what is left of the order is dropped.
rest_order_dropped(b, o) == b

\* The end of _add_order: the order rests.
rest_order(b, o) ==
    IF o.quantity > 0
    THEN LET b1 == [b EXCEPT !.orders = Put(@, o.id, o)]
             tree == order_tree(b1, o.is_bid)
         IN  IF o.price \notin DOMAIN tree
             THEN \* the new LimitLevel object is named by the order that made it
                  LET b2 == [b1 EXCEPT !.levels = Put(@, o.id, LimitLevel(o))]
                  IN  IF o.is_bid THEN [b2 EXCEPT !.bids = Put(@, o.price, o.id)]
                      ELSE [b2 EXCEPT !.asks = Put(@, o.price, o.id)]
             ELSE _append_limit(b1, tree[o.price], o)
    ELSE b

\* Mutant of crossing_level: an order at the best opposing price does not
\* cross.
crossing_level_strict(b, o) ==
    IF o.is_bid /\ best_ask(b) # NoLevel
    THEN IF b.levels[best_ask(b)].price < o.price THEN best_ask(b) ELSE NoLevel
    ELSE IF ~o.is_bid /\ best_bid(b) # NoLevel
    THEN IF b.levels[best_bid(b)].price > o.price THEN best_bid(b) ELSE NoLevel
    ELSE NoLevel

\* The level an incoming order is to be matched against, as _add_order
\* decides it: the best opposing level when its price crosses, else NoLevel.
crossing_level(b, o) ==
    IF o.is_bid /\ best_ask(b) # NoLevel
    THEN IF b.levels[best_ask(b)].price <= o.price THEN best_ask(b) ELSE NoLevel
    ELSE IF ~o.is_bid /\ best_bid(b) # NoLevel
    THEN IF b.levels[best_bid(b)].price >= o.price THEN best_bid(b) ELSE NoLevel
    ELSE NoLevel

\* Mutant of update_in_place: the level's quantity is left as it was.
update_in_place_no_level(b, oid, quantity, price) ==
    [b EXCEPT !.orders[oid].quantity = quantity]

\* update, the branch that keeps the order where it is: the order's and the
\* level's quantity are lowered.
update_in_place(b, oid, quantity, price) ==
    LET o == b.orders[oid]
        tree == order_tree(b, o.is_bid)
        quantity_difference == o.quantity - quantity
        b1 == [b EXCEPT !.orders[oid].quantity = quantity]
    IN  IF price \in DOMAIN tree
        THEN [b1 EXCEPT !.levels[tree[price]].quantity = @ - quantity_difference]
        ELSE b1

\* update(order_id, quantity, price, trader) up to the point where it returns
\* or calls bid / ask: the book after it, the path taken, and the side of the
\* order that a replacement is submitted on.
update_book(b, oid, quantity, price, trader) ==
    IF quantity = 0
    THEN [b |-> cancel(b, oid, None), path |-> "cancel", is_bid |-> FALSE]
    ELSE IF oid \in DOMAIN b.orders /\ b.orders[oid].trader = trader
    THEN LET o == b.orders[oid]
             tree == order_tree(b, o.is_bid)
             price_difference == o.price - price
             quantity_difference == o.quantity - quantity
         IN  IF price_difference # 0
             THEN [b |-> cancel(b, oid, None), path |-> "replace", is_bid |-> o.is_bid]
             ELSE IF quantity_difference >= 0
             THEN [b |-> update_in_place(b, oid, quantity, price),
                   path |-> "in_place", is_bid |-> o.is_bid]
             ELSE [b |-> cancel(b, oid, None), path |-> "replace", is_bid |-> o.is_bid]
    ELSE IF oid \in DOMAIN b.orders
    THEN [b |-> b, path |-> "not_owner", is_bid |-> FALSE]
    ELSE [b |-> b, path |-> "not_exist", is_bid |-> FALSE]

----------------------------------------------------------------------------
\* The methods run from call to return, as functions of the book.

acquire(b) == IF b.lock THEN [b EXCEPT !.exc = "deadlock"] ELSE [b EXCEPT !.lock = TRUE]
release(b) == [b EXCEPT !.lock = FALSE]

Ret(kind, id) == [kind |-> kind, id |-> id]
NoRet == Ret("pending", NoLevel)

\* Mutant of Outcome: the method returns where it raised.
Outcome_returns(b, kind, id) == [b |-> b, ret |-> Ret(kind, id)]

\* What a method hands back: the value it returns, or the exception it raised.
Outcome(b, kind, id) ==
    [b |-> b, ret |-> IF b.exc # "none" THEN Ret(b.exc, NoLevel) ELSE Ret(kind, id)]

\* The record of one iteration of the matching loop.
Iteration(b, o, lv, r) ==
    [level |-> lv,
     fill |-> Head(b.levels[lv].orders) \in DOMAIN b.orders,
     head |-> Head(b.levels[lv].orders),
     order |-> o, order_after |-> r.o,
     before |-> [b EXCEPT !.iterations = <<>>],
     after |-> [r.b EXCEPT !.iterations = <<>>]]

RECURSIVE _add_order(_, _, _), _match_orders(_, _, _), update(_, _, _, _, _),
          submit(_, _, _, _, _)

\* _add_order(order, acquire_locks)
_add_order(b, o, locks) ==
    IF o.id \in DOMAIN b.orders THEN [b EXCEPT !.exc = "LOBException_existing_id"]
    ELSE LET lv == crossing_level(b, o)
         IN  IF lv # NoLevel
             THEN LET b1 == IF locks THEN acquire(b) ELSE b
                      b2 == IF b1.exc # "none" THEN b1 ELSE _match_orders(b1, o, lv)
                  IN  IF b2.exc = "none" /\ locks THEN release(b2) ELSE b2
             ELSE rest_order(b, o)

\* _match_orders(order, best_value)
_match_orders(b, o, lv) ==
    IF lv = NoLevel THEN b
    ELSE IF match_cond(b, o, lv)
    THEN LET r == match_body(b, o, lv)
             b1 == [r.b EXCEPT !.iterations = Append(@, Iteration(b, o, lv, r))]
         IN  IF b1.exc # "none" THEN b1 ELSE _match_orders(b1, r.o, lv)
    ELSE LET b1 == match_end(b, o, lv)
         IN  IF b1.exc # "none" THEN b1
             ELSE IF o.quantity > 0
             THEN IF o.id \in DOMAIN b1.orders
                  THEN \* _update_order: self.update(order.id, order.price, order.quantity)
                       update(b1, o.id, o.price, o.quantity, None).b
                  ELSE _add_order(b1, o, FALSE)
             ELSE b1

\* bid(quantity, price, trader) for is_bid, ask(quantity, price, trader) for ~is_bid
submit(b, is_bid, quantity, price, trader) ==
    LET b1 == acquire(b)
        o  == Order(is_bid, quantity, price, b1.order_id, trader)
        b2 == release([b1 EXCEPT !.order_id = @ + 1,
                                 !.allocated = Append(@, b1.order_id)])
    IN  IF b1.exc # "none" THEN Outcome(b1, "id", NoLevel)
        ELSE Outcome(_add_order(b2, o, TRUE), "id", o.id)

\* update(order_id, quantity, price, trader)
update(b, oid, quantity, price, trader) ==
    LET r == update_book(b, oid, quantity, price, trader)
    IN  CASE r.b.exc # "none" -> Outcome(r.b, "None", NoLevel)
          [] r.path = "cancel" -> Outcome(r.b, "None", NoLevel)
          [] r.path = "in_place" -> Outcome(r.b, "id", oid)
          [] r.path = "not_owner" ->
                Outcome([r.b EXCEPT !.exc = "LOBException_not_owner"], "None", NoLevel)
          [] r.path = "not_exist" ->
                Outcome([r.b EXCEPT !.exc = "LOBException_not_exist"], "None", NoLevel)
          [] OTHER -> submit(r.b, r.is_bid, quantity, price, trader)

----------------------------------------------------------------------------
\* DoublyLinkedList (src/doubly_linked_list.py).  The Node objects are
\* dll.nodes[1], dll.nodes[2], ... in the order they were made; prev, next,
\* head and tail are references to them, NoNode standing for None.  exc is
\* the exception a method raised ("none": it has not); an attribute of None
\* that is read or written raises AttributeError where the statement stands,
\* with the statements before it done.

Node(value) == [value |-> value, prev |-> NoNode, next |-> NoNode]

DoublyLinkedList ==
    [head |-> NoNode, tail |-> NoNode, length |-> 0, nodes |-> <<>>, exc |-> "none"]

NoListCall == [op |-> "none", pos |-> 0, node |-> NoNode, kind |-> "None",
               res |-> NoNode, before |-> <<>>]

\* The caller's Node(value): the object dll.nodes[Len(dll.nodes) + 1].
NewNode(l, value) == [l EXCEPT !.nodes = Append(@, Node(value))]

AttributeError(l) == [l EXCEPT !.exc = "AttributeError"]

\* What a method of the list hands back: the list after it and the value
\* returned.
Returns(l, res) == [l |-> l, res |-> res]

\* locator = self.head; for i in range(pos - 1): locator = locator.next
RECURSIVE Walk(_, _, _)
Walk(l, locator, k) ==
    IF k <= 0 THEN [node |-> locator, exc |-> FALSE]
    ELSE IF locator = NoNode THEN [node |-> NoNode, exc |-> TRUE]
    ELSE Walk(l, l.nodes[locator].next, k - 1)

append(l, node) ==
    IF l.tail = NoNode
    THEN [l EXCEPT !.head = node, !.tail = node, !.length = @ + 1]
    ELSE [l EXCEPT !.nodes[l.tail].next = node, !.nodes[node].prev = l.tail,
                   !.tail = node, !.length = @ + 1]

append_left(l, node) ==
    IF l.head = NoNode
    THEN [l EXCEPT !.head = node, !.tail = node, !.length = @ + 1]
    ELSE [l EXCEPT !.nodes[l.head].prev = node, !.nodes[node].next = l.head,
                   !.head = node, !.length = @ + 1]

insert(l, node, pos) ==
    IF pos >= l.length THEN append(l, node)
    ELSE IF pos <= 0 THEN append_left(l, node)
    ELSE LET w == Walk(l, l.head, pos - 1)
             locator == w.node
         IN  IF w.exc \/ locator = NoNode THEN AttributeError(l)
             ELSE LET after == l.nodes[locator].next
                      \* node.next = locator.next
                      l1 == [l EXCEPT !.nodes[node].next = after]
                  IN  \* locator.next.prev = node
                      IF after = NoNode THEN AttributeError(l1)
                      ELSE [l1 EXCEPT !.nodes[after].prev = node,
                                      !.nodes[node].prev = locator,
                                      !.nodes[locator].next = node,
                                      !.length = @ + 1]

pop(l) ==
    IF l.tail # NoNode
    THEN IF l.length >= 2
         THEN LET tail == l.tail
                  before == l.nodes[tail].prev
              IN  \* tail.prev.next = None
                  IF before = NoNode THEN Returns(AttributeError(l), NoNode)
                  ELSE Returns([l EXCEPT !.nodes[before].next = NoNode,
                                         !.tail = before,
                                         !.nodes[tail].prev = NoNode,
                                         !.length = @ - 1], tail)
         ELSE Returns([l EXCEPT !.head = NoNode, !.tail = NoNode, !.length = @ - 1],
                      l.tail)
    ELSE Returns(l, NoNode)

pop_left(l) ==
    IF l.head # NoNode
    THEN IF l.length >= 2
         THEN LET head == l.head
                  after == l.nodes[head].next
              IN  \* head.next.prev = None
                  IF after = NoNode THEN Returns(AttributeError(l), NoNode)
                  ELSE Returns([l EXCEPT !.nodes[after].prev = NoNode,
                                         !.head = after,
                                         !.nodes[head].next = NoNode,
                                         !.length = @ - 1], head)
         ELSE Returns([l EXCEPT !.head = NoNode, !.tail = NoNode, !.length = @ - 1],
                      l.head)
    ELSE Returns(l, NoNode)

remove(l, pos) ==
    IF pos >= l.length THEN pop(l).l
    ELSE IF pos <= 0 THEN pop_left(l).l
    ELSE LET w == Walk(l, l.head, pos - 1)
             locator == w.node
         IN  \* secondary = locator.next
             IF w.exc \/ locator = NoNode THEN AttributeError(l)
             ELSE LET secondary == l.nodes[locator].next
                  IN  \* locator.next = secondary.next
                      IF secondary = NoNode THEN AttributeError(l)
                      ELSE LET after == l.nodes[secondary].next
                               l1 == [l EXCEPT !.nodes[locator].next = after]
                           IN  \* secondary.next.prev = locator
                               IF after = NoNode THEN AttributeError(l1)
                               ELSE [l1 EXCEPT !.nodes[after].prev = locator,
                                               !.length = @ - 1]

\* The nodes met from node n on by following next (or prev), as far as None;
\* fuel bounds the walk, should the references run in a circle.
RECURSIVE Follow(_, _, _, _)
Follow(l, n, forward, fuel) ==
    IF n = NoNode \/ fuel = 0 THEN <<>>
    ELSE <<n>> \o Follow(l, IF forward THEN l.nodes[n].next ELSE l.nodes[n].prev,
                         forward, fuel - 1)

Forward(l) == Follow(l, l.head, TRUE, Len(l.nodes) + 1)
Backward(l) == Follow(l, l.tail, FALSE, Len(l.nodes) + 1)

----------------------------------------------------------------------------
\* The threads.  pc[t] is the place of thread t in the method it is running.

Init ==
    /\ bids = EmptyMap /\ asks = EmptyMap /\ levels = EmptyMap /\ orders = EmptyMap
    /\ order_id = 0
    /\ lock = FALSE
    /\ balance = [t \in Traders |-> 0]
    /\ owned = [t \in Traders |-> EmptyMap]
    /\ record_match_history = FALSE
    /\ match_history = <<>>
    /\ cancelled = {}
    /\ allocated = <<>>
    /\ pc = [t \in Threads |-> "idle"]
    /\ order = [t \in Threads |-> NoOrder]
    /\ best_value = [t \in Threads |-> NoLevel]
    /\ price_level = [t \in Threads |-> NoPriceLevel]
    /\ acquire_locks = [t \in Threads |-> TRUE]
    /\ unlock = [t \in Threads |-> FALSE]
    /\ call = [t \in Threads |-> NoCall]
    /\ ret = [t \in Threads |-> NoRet]
    /\ pre = NoCall
    /\ iterations = <<>>
    /\ dll = DoublyLinkedList
    /\ dll_call = NoListCall

\* The state after LimitOrderBook(record_match_history=True), or =False.
InitRecording ==
    /\ bids = EmptyMap /\ asks = EmptyMap /\ levels = EmptyMap /\ orders = EmptyMap
    /\ order_id = 0
    /\ lock = FALSE
    /\ balance = [t \in Traders |-> 0]
    /\ owned = [t \in Traders |-> EmptyMap]
    /\ record_match_history \in BOOLEAN
    /\ match_history = <<>>
    /\ cancelled = {}
    /\ allocated = <<>>
    /\ pc = [t \in Threads |-> "idle"]
    /\ order = [t \in Threads |-> NoOrder]
    /\ best_value = [t \in Threads |-> NoLevel]
    /\ price_level = [t \in Threads |-> NoPriceLevel]
    /\ acquire_locks = [t \in Threads |-> TRUE]
    /\ unlock = [t \in Threads |-> FALSE]
    /\ call = [t \in Threads |-> NoCall]
    /\ ret = [t \in Threads |-> NoRet]
    /\ pre = NoCall
    /\ iterations = <<>>
    /\ dll = DoublyLinkedList
    /\ dll_call = NoListCall

\* The book after a step.  A LimitLevel object lives while an index or a
\* thread's best_value or price_level refers to it.
Commit(b) ==
    /\ bids' = b.bids /\ asks' = b.asks /\ orders' = b.orders
    /\ balance' = b.balance /\ owned' = b.owned
    /\ match_history' = b.match_history
    /\ cancelled' = b.cancelled
    /\ allocated' = b.allocated
    /\ levels' = [l \in (Range(b.bids) \cup Range(b.asks)
                           \cup {best_value'[t] : t \in Threads}
                           \cup {price_level'[t].level : t \in Threads}) \cap DOMAIN b.levels
                    |-> b.levels[l]]
    /\ UNCHANGED record_match_history

\* Whether update(...) called now would go on to call bid or ask.
WouldAllocate(c) == update_book(Book, c.order_id, c.quantity, c.price, c.trader).path = "replace"

\* The calls in progress that may have an id still to allocate: a bid or an
\* ask before its allocation, and an update that does not cancel (whether it
\* replaces its order is decided by the book it finds when it runs).
Pending == Cardinality({t \in Threads :
               \/ pc[t] \in {"bid_acquire", "bid_alloc", "bid_increment"}
               \/ pc[t] = "update" /\ call[t].quantity # 0})

\* The thread's return from the method: the value, or the exception raised.
Finish(t, kind, id) ==
    /\ pc' = [pc EXCEPT ![t] = "ret"]
    /\ ret' = [ret EXCEPT ![t] = Ret(kind, id)]

\* The way out of _add_order: the outermost frame releases the lock it took.
Leave(t) ==
    IF unlock[t]
    THEN pc' = [pc EXCEPT ![t] = "release"] /\ UNCHANGED ret
    ELSE Finish(t, "id", order[t].id)

Submit(t, op, is_bid, quantity, price, trader) ==
    /\ pc[t] = "idle"
    /\ order_id + Pending < MaxThreadOrders
    /\ call' = [call EXCEPT ![t] = [op |-> op, order_id |-> NoLevel, quantity |-> quantity,
                                    price |-> price, trader |-> trader]]
    /\ order' = [order EXCEPT ![t] = Order(is_bid, quantity, price, NoLevel, trader)]
    /\ pc' = [pc EXCEPT ![t] = "bid_acquire"]
    /\ UNCHANGED <<bookvars, best_value, price_level, acquire_locks, unlock, ret>>

\* A call of bid(quantity, price, trader)
CallBid(t) ==
    \E quantity \in Quantities, price \in Prices, trader \in ThreadTraderArgs :
        Submit(t, "bid", TRUE, quantity, price, trader)

\* A call of ask(quantity, price, trader)
CallAsk(t) ==
    \E quantity \in Quantities, price \in Prices, trader \in ThreadTraderArgs :
        Submit(t, "ask", FALSE, quantity, price, trader)

\* A call of update(order_id, quantity, price, trader)
CallUpdate(t) ==
    \E oid \in 0..order_id, quantity \in 0..MaxQty, price \in Prices, trader \in ThreadTraderArgs :
        LET c == [op |-> "update", order_id |-> oid, quantity |-> quantity,
                  price |-> price, trader |-> trader]
        IN  /\ pc[t] = "idle"
            /\ quantity # 0 => order_id + Pending < MaxThreadOrders
            /\ call' = [call EXCEPT ![t] = c]
            /\ pc' = [pc EXCEPT ![t] = "update"]
            /\ UNCHANGED <<bookvars, order, best_value, price_level, acquire_locks, unlock, ret>>

\* A call of cancel(order_id, trader)
CallCancel(t) ==
    \E oid \in 0..order_id, trader \in ThreadTraderArgs :
        /\ pc[t] = "idle"
        /\ call' = [call EXCEPT ![t] = [op |-> "cancel", order_id |-> oid, quantity |-> 0,
                                        price |-> 0, trader |-> trader]]
        /\ pc' = [pc EXCEPT ![t] = "cancel"]
        /\ UNCHANGED <<bookvars, order, best_value, price_level, acquire_locks, unlock, ret>>

\* Mutant of BidAcquire: the lock is not waited for.
BidAcquireNoLock(t) ==
    /\ pc[t] = "bid_acquire"
    /\ lock' = TRUE
    /\ pc' = [pc EXCEPT ![t] = "bid_alloc"]
    /\ UNCHANGED <<bids, asks, levels, orders, order_id, balance, owned,
                   record_match_history, match_history, cancelled, allocated,
                   order, best_value, price_level, acquire_locks, unlock, call, ret>>

\* bid / ask: self.lock.acquire()
BidAcquire(t) ==
    /\ pc[t] = "bid_acquire"
    /\ ~lock
    /\ lock' = TRUE
    /\ pc' = [pc EXCEPT ![t] = "bid_alloc"]
    /\ UNCHANGED <<bids, asks, levels, orders, order_id, balance, owned,
                   record_match_history, match_history, cancelled, allocated,
                   order, best_value, price_level, acquire_locks, unlock, call, ret>>

\* bid / ask: order = Order(is_bid, quantity, price, self.order_id, trader)
BidAlloc(t) ==
    /\ pc[t] = "bid_alloc"
    /\ order' = [order EXCEPT ![t] = [@ EXCEPT !.id = order_id]]
    /\ allocated' = Append(allocated, order_id)
    /\ pc' = [pc EXCEPT ![t] = "bid_increment"]
    /\ UNCHANGED <<bids, asks, levels, orders, order_id, lock, balance, owned,
                   record_match_history, match_history, cancelled,
                   best_value, price_level, acquire_locks, unlock, call, ret>>

\* bid / ask: self.order_id += 1, self.lock.release(), and _add_order(order)
\* is entered
BidIncrement(t) ==
    /\ pc[t] = "bid_increment"
    /\ order_id' = order_id + 1
    /\ lock' = FALSE
    /\ acquire_locks' = [acquire_locks EXCEPT ![t] = TRUE]
    /\ pc' = [pc EXCEPT ![t] = "add_order"]
    /\ UNCHANGED <<bids, asks, levels, orders, balance, owned,
                   record_match_history, match_history, cancelled, allocated,
                   order, best_value, price_level, unlock, call, ret>>

\* _add_order: the check for an existing id and the choice between matching
\* against the best opposing level and resting.
AddOrder(t) ==
    /\ pc[t] = "add_order"
    /\ IF order[t].id \in DOMAIN orders
       THEN /\ Finish(t, "LOBException_existing_id", order[t].id)
            /\ UNCHANGED best_value
       ELSE LET lv == crossing_level(Book, order[t])
            IN  /\ best_value' = [best_value EXCEPT ![t] = lv]
                /\ pc' = [pc EXCEPT ![t] =
                            IF lv = NoLevel THEN "rest"
                            ELSE IF acquire_locks[t] THEN "match_acquire"
                            ELSE "match_orders"]
                /\ UNCHANGED ret
    /\ UNCHANGED <<bookvars, order, price_level, acquire_locks, unlock, call>>

\* _add_order: self.lock.acquire() before _match_orders
MatchAcquire(t) ==
    /\ pc[t] = "match_acquire"
    /\ ~lock
    /\ lock' = TRUE
    /\ unlock' = [unlock EXCEPT ![t] = TRUE]
    /\ pc' = [pc EXCEPT ![t] = "match_orders"]
    /\ UNCHANGED <<bids, asks, levels, orders, order_id, balance, owned,
                   record_match_history, match_history, cancelled, allocated,
                   order, best_value, price_level, acquire_locks, call, ret>>

\* _match_orders: the test of the while loop, head_order_id =
\* best_value.orders[0] and the test head_order_id in self.orders; a head
\* that was cancelled is popped, and the loop continues
MatchLoop(t) ==
    /\ pc[t] = "match_orders"
    /\ best_value[t] # NoLevel
    /\ match_cond(Book, order[t], best_value[t])
    /\ UNCHANGED <<order_id, lock, order, best_value, price_level, acquire_locks, unlock,
                   call, ret>>
    /\ IF Head(levels[best_value[t]].orders) \in DOMAIN orders
       THEN pc' = [pc EXCEPT ![t] = "match_head"] /\ Commit(Book)
       ELSE UNCHANGED pc /\ Commit(pop_cancelled(Book, best_value[t]))

\* _match_orders: head_order = self.orders[best_value.orders[0]] and the
\* rest of the iteration; the read raises KeyError if the order has left the
\* registry since the test, and the exception leaves _match_orders, _add_order
\* and bid / ask with no release of the lock
MatchHead(t) ==
    /\ pc[t] = "match_head"
    /\ UNCHANGED <<order_id, lock, best_value, price_level, acquire_locks, unlock, call>>
    /\ IF Len(levels[best_value[t]].orders) = 0
       THEN Finish(t, "IndexError", NoLevel) /\ UNCHANGED order /\ Commit(Book)
       ELSE IF Head(levels[best_value[t]].orders) \notin DOMAIN orders
       THEN Finish(t, "KeyError", NoLevel) /\ UNCHANGED order /\ Commit(Book)
       ELSE LET r == match_body(Book, order[t], best_value[t])
            IN  /\ order' = [order EXCEPT ![t] = r.o]
                /\ IF r.b.exc # "none"
                   THEN Finish(t, r.b.exc, NoLevel)
                   ELSE pc' = [pc EXCEPT ![t] = "match_orders"] /\ UNCHANGED ret
                /\ Commit(r.b)

\* _match_orders: after the loop, the emptied level is deleted and what is
\* left of the order goes to _add_order(order, False)
MatchEnd(t) ==
    /\ pc[t] = "match_orders"
    /\ best_value[t] # NoLevel => ~match_cond(Book, order[t], best_value[t])
    /\ LET b == IF best_value[t] = NoLevel THEN Book
                ELSE match_end(Book, order[t], best_value[t])
       IN  /\ IF b.exc # "none"
              THEN Finish(t, b.exc, NoLevel) /\ UNCHANGED <<acquire_locks, call>>
              ELSE IF best_value[t] # NoLevel /\ order[t].quantity > 0
              THEN IF order[t].id \in DOMAIN b.orders
                   THEN \* _update_order: self.update(order.id, order.price, order.quantity)
                        /\ call' = [call EXCEPT ![t] =
                                      [op |-> "update", order_id |-> order[t].id,
                                       quantity |-> order[t].price,
                                       price |-> order[t].quantity, trader |-> None]]
                        /\ pc' = [pc EXCEPT ![t] = "update"]
                        /\ UNCHANGED <<acquire_locks, ret>>
                   ELSE /\ acquire_locks' = [acquire_locks EXCEPT ![t] = FALSE]
                        /\ pc' = [pc EXCEPT ![t] = "add_order"]
                        /\ UNCHANGED <<call, ret>>
              ELSE Leave(t) /\ UNCHANGED <<acquire_locks, call>>
           /\ best_value' = [best_value EXCEPT ![t] = NoLevel]
           /\ UNCHANGED <<order_id, lock, order, price_level, unlock>>
           /\ Commit(b)

\* _add_order: the order rests (lines 168-173)
Rest(t) ==
    /\ pc[t] = "rest"
    /\ Leave(t)
    /\ UNCHANGED <<order_id, lock, order, best_value, price_level, acquire_locks, unlock, call>>
    /\ Commit(rest_order(Book, order[t]))

\* _add_order: self.lock.release() after _match_orders
Release(t) ==
    /\ pc[t] = "release"
    /\ lock' = FALSE
    /\ unlock' = [unlock EXCEPT ![t] = FALSE]
    /\ Finish(t, "id", order[t].id)
    /\ UNCHANGED <<bids, asks, levels, orders, order_id, balance, owned,
                   record_match_history, match_history, cancelled, allocated,
                   order, best_value, price_level, acquire_locks, call>>

\* update: everything up to its return, its raise, or its call of bid / ask
UpdateStep(t) ==
    /\ pc[t] = "update"
    /\ LET c == call[t]
           r == update_book(Book, c.order_id, c.quantity, c.price, c.trader)
       IN  /\ CASE r.b.exc # "none" -> Finish(t, r.b.exc, NoLevel) /\ UNCHANGED order
                [] r.path = "cancel" -> Finish(t, "None", NoLevel) /\ UNCHANGED order
                [] r.path = "in_place" -> Finish(t, "id", c.order_id) /\ UNCHANGED order
                [] r.path = "not_owner" ->
                      Finish(t, "LOBException_not_owner", NoLevel) /\ UNCHANGED order
                [] r.path = "not_exist" ->
                      Finish(t, "LOBException_not_exist", NoLevel) /\ UNCHANGED order
                [] OTHER ->  \* replace: order_adder(quantity, price, trader)
                      /\ order' = [order EXCEPT ![t] =
                                     Order(r.is_bid, c.quantity, c.price, NoLevel, c.trader)]
                      /\ pc' = [pc EXCEPT ![t] = "bid_acquire"]
                      /\ UNCHANGED ret
           /\ UNCHANGED <<order_id, lock, best_value, price_level, acquire_locks, unlock, call>>
           /\ Commit(r.b)

\* cancel: if order_id in self.orders and self.orders[order_id].trader is trader
CancelCheck(t) ==
    /\ pc[t] = "cancel"
    /\ IF /\ call[t].order_id \in DOMAIN orders
          /\ orders[call[t].order_id].trader = call[t].trader
       THEN pc' = [pc EXCEPT ![t] = "cancel_level"] /\ UNCHANGED ret
       ELSE Finish(t, "None", NoLevel)
    /\ UNCHANGED <<bookvars, order, best_value, price_level, acquire_locks, unlock, call>>

\* cancel: order_tree = ...; price_level = order_tree[self.orders[order_id].price]
CancelLevel(t) ==
    /\ pc[t] = "cancel_level"
    /\ LET oid == call[t].order_id
       IN  IF oid \notin DOMAIN orders
           THEN Finish(t, "KeyError", NoLevel) /\ UNCHANGED price_level
           ELSE LET tree == order_tree(Book, orders[oid].is_bid)
                IN  IF orders[oid].price \notin DOMAIN tree
                    THEN Finish(t, "KeyError", NoLevel) /\ UNCHANGED price_level
                    ELSE /\ price_level' =
                               [price_level EXCEPT ![t] =
                                   [is_bid |-> orders[oid].is_bid,
                                    level |-> tree[orders[oid].price]]]
                         /\ pc' = [pc EXCEPT ![t] = "cancel_quantity"]
                         /\ UNCHANGED ret
    /\ UNCHANGED <<bookvars, order, best_value, acquire_locks, unlock, call>>

\* cancel: price_level.quantity -= self.orders[order_id].quantity
CancelQuantity(t) ==
    /\ pc[t] = "cancel_quantity"
    /\ UNCHANGED <<order_id, lock, order, best_value, price_level, acquire_locks, unlock, call>>
    /\ LET oid == call[t].order_id
           lv == price_level[t].level
       IN  IF oid \notin DOMAIN orders
           THEN Finish(t, "KeyError", NoLevel) /\ Commit(Book)
           ELSE /\ pc' = [pc EXCEPT ![t] = "cancel_delete"]
                /\ UNCHANGED ret
                /\ Commit([Book EXCEPT !.levels[lv].quantity = @ - orders[oid].quantity])

\* cancel: if price_level.quantity <= 0: del order_tree[price_level.price];
\* del self.orders[order_id]
CancelDelete(t) ==
    /\ pc[t] = "cancel_delete"
    /\ UNCHANGED <<order_id, lock, order, best_value, price_level, acquire_locks, unlock, call>>
    /\ LET oid == call[t].order_id
           lv == price_level[t].level
           b1 == IF levels[lv].quantity <= 0
                 THEN DelKey(Book, price_level[t].is_bid, levels[lv].price)
                 ELSE Book
       IN  IF b1.exc # "none"
           THEN Finish(t, b1.exc, NoLevel) /\ Commit(Book)
           ELSE IF oid \notin DOMAIN orders
           THEN Finish(t, "KeyError", NoLevel) /\ Commit(b1)
           ELSE /\ Finish(t, "None", NoLevel)
                /\ Commit([b1 EXCEPT !.orders = Remove(@, oid),
                                      !.cancelled = @ \cup {oid}])

\* The method returns to its caller.
Return(t) ==
    /\ pc[t] = "ret"
    /\ pc' = [pc EXCEPT ![t] = "idle"]
    /\ order' = [order EXCEPT ![t] = NoOrder]
    /\ best_value' = [best_value EXCEPT ![t] = NoLevel]
    /\ price_level' = [price_level EXCEPT ![t] = NoPriceLevel]
    /\ acquire_locks' = [acquire_locks EXCEPT ![t] = TRUE]
    /\ unlock' = [unlock EXCEPT ![t] = FALSE]
    /\ call' = [call EXCEPT ![t] = NoCall]
    /\ ret' = [ret EXCEPT ![t] = NoRet]
    /\ UNCHANGED order_id /\ UNCHANGED lock
    /\ Commit(Book)

\* Spec: each call is one step of the main thread, from the call to the
\* point of return; Return then hands control back.  pre is the book the
\* call was made on.
Called(c, result) ==
    /\ pc[MainThread] = "idle"
    /\ \E r \in {result} :
        /\ pc' = [pc EXCEPT ![MainThread] = "ret"]
        /\ call' = [call EXCEPT ![MainThread] = c]
        /\ ret' = [ret EXCEPT ![MainThread] = r.ret]
        /\ pre' = Book
        /\ order_id' = r.b.order_id
        /\ lock' = r.b.lock
        /\ iterations' = r.b.iterations
        /\ UNCHANGED <<order, best_value, price_level, acquire_locks, unlock>>
        /\ UNCHANGED listvars
        /\ Commit(r.b)

\* bid(quantity, price, trader), the trader argument one of trader_args
BidOf(trader_args) ==
    \E quantity \in Quantities, price \in Prices, trader \in trader_args :
        /\ order_id < MaxOrders
        /\ Called([op |-> "bid", order_id |-> NoLevel, quantity |-> quantity,
                   price |-> price, trader |-> trader],
                  submit(Book, TRUE, quantity, price, trader))

\* ask(quantity, price, trader)
AskOf(trader_args) ==
    \E quantity \in Quantities, price \in Prices, trader \in trader_args :
        /\ order_id < MaxOrders
        /\ Called([op |-> "ask", order_id |-> NoLevel, quantity |-> quantity,
                   price |-> price, trader |-> trader],
                  submit(Book, FALSE, quantity, price, trader))

\* update(order_id, quantity, price, trader)
UpdateOf(trader_args) ==
    /\ pc[MainThread] = "idle"
    /\ \E oid \in 0..order_id, quantity \in 0..MaxQty, price \in Prices, trader \in trader_args :
        LET c == [op |-> "update", order_id |-> oid, quantity |-> quantity,
                  price |-> price, trader |-> trader]
        IN  /\ WouldAllocate(c) => order_id < MaxOrders
            /\ Called(c, update(Book, oid, quantity, price, trader))

\* cancel(order_id, trader)
CancelOf(trader_args) ==
    \E oid \in 0..order_id, trader \in trader_args :
        Called([op |-> "cancel", order_id |-> oid, quantity |-> 0,
                price |-> 0, trader |-> trader],
               Outcome(cancel(Book, oid, trader), "None", NoLevel))

Bid == BidOf(TraderArgs)
Ask == AskOf(TraderArgs)
Update == UpdateOf(TraderArgs)
Cancel == CancelOf(TraderArgs)

Returned ==
    /\ Return(MainThread)
    /\ pre' = NoCall
    /\ iterations' = <<>>
    /\ UNCHANGED listvars

Next == Bid \/ Ask \/ Update \/ Cancel \/ Returned

Spec == Init /\ [][Next]_vars

\* The calls made one at a time, none carrying a trader, on a book that
\* records its match history and on one that does not.
BidRecording == BidOf(ThreadTraderArgs)
AskRecording == AskOf(ThreadTraderArgs)
UpdateRecording == UpdateOf(ThreadTraderArgs)
CancelRecording == CancelOf(ThreadTraderArgs)

NextRecording ==
    BidRecording \/ AskRecording \/ UpdateRecording \/ CancelRecording \/ Returned

SpecRecording == InitRecording /\ [][NextRecording]_vars

\* The calls made one at a time, every one of them carrying a trader.
BidTraders == BidOf(Traders)
AskTraders == AskOf(Traders)
UpdateTraders == UpdateOf(Traders)
CancelTraders == CancelOf(Traders)

NextTraders == BidTraders \/ AskTraders \/ UpdateTraders \/ CancelTraders \/ Returned

SpecTraders == Init /\ [][NextTraders]_vars

\* The calls made by several threads, their steps interleaved.
NextThreads ==
    \E t \in Threads :
        \/ CallBid(t) /\ UNCHANGED <<pre, iterations, listvars>>
        \/ CallAsk(t) /\ UNCHANGED <<pre, iterations, listvars>>
        \/ CallUpdate(t) /\ UNCHANGED <<pre, iterations, listvars>>
        \/ CallCancel(t) /\ UNCHANGED <<pre, iterations, listvars>>
        \/ BidAcquire(t) /\ UNCHANGED <<pre, iterations, listvars>>
        \/ BidAlloc(t) /\ UNCHANGED <<pre, iterations, listvars>>
        \/ BidIncrement(t) /\ UNCHANGED <<pre, iterations, listvars>>
        \/ AddOrder(t) /\ UNCHANGED <<pre, iterations, listvars>>
        \/ MatchAcquire(t) /\ UNCHANGED <<pre, iterations, listvars>>
        \/ MatchLoop(t) /\ UNCHANGED <<pre, iterations, listvars>>
        \/ MatchHead(t) /\ UNCHANGED <<pre, iterations, listvars>>
        \/ MatchEnd(t) /\ UNCHANGED <<pre, iterations, listvars>>
        \/ Rest(t) /\ UNCHANGED <<pre, iterations, listvars>>
        \/ Release(t) /\ UNCHANGED <<pre, iterations, listvars>>
        \/ UpdateStep(t) /\ UNCHANGED <<pre, iterations, listvars>>
        \/ CancelCheck(t) /\ UNCHANGED <<pre, iterations, listvars>>
        \/ CancelLevel(t) /\ UNCHANGED <<pre, iterations, listvars>>
        \/ CancelQuantity(t) /\ UNCHANGED <<pre, iterations, listvars>>
        \/ CancelDelete(t) /\ UNCHANGED <<pre, iterations, listvars>>
        \/ Return(t) /\ UNCHANGED <<pre, iterations, listvars>>

SpecThreads == Init /\ [][NextThreads]_vars

\* The methods of a DoublyLinkedList, called one at a time.  dll_call keeps
\* the call, its outcome and the nodes the list held before it.
ListCall(op, pos, node, l, res) ==
    /\ dll' = [l EXCEPT !.exc = "none"]
    /\ dll_call' = [op |-> op, pos |-> pos, node |-> node,
                    kind |-> IF l.exc # "none" THEN l.exc
                             ELSE IF res = NoNode THEN "None" ELSE "Node",
                    res |-> res, before |-> Forward(dll)]
    /\ UNCHANGED <<bookvars, threadvars, pre, iterations>>

\* append(Node(value))
CallAppend ==
    /\ Len(dll.nodes) < MaxNodes
    /\ \E value \in Values :
        LET node == Len(dll.nodes) + 1
        IN  ListCall("append", 0, node, append(NewNode(dll, value), node), NoNode)

\* append_left(Node(value))
CallAppendLeft ==
    /\ Len(dll.nodes) < MaxNodes
    /\ \E value \in Values :
        LET node == Len(dll.nodes) + 1
        IN  ListCall("append_left", 0, node, append_left(NewNode(dll, value), node), NoNode)

\* insert(Node(value), pos)
CallInsert ==
    /\ Len(dll.nodes) < MaxNodes
    /\ \E value \in Values, pos \in Positions :
        LET node == Len(dll.nodes) + 1
        IN  ListCall("insert", pos, node, insert(NewNode(dll, value), node, pos), NoNode)

\* remove(pos)
CallRemove ==
    \E pos \in Positions : ListCall("remove", pos, NoNode, remove(dll, pos), NoNode)

\* pop()
CallPop == ListCall("pop", 0, NoNode, pop(dll).l, pop(dll).res)

\* pop_left()
CallPopLeft == ListCall("pop_left", 0, NoNode, pop_left(dll).l, pop_left(dll).res)

NextList ==
    CallAppend \/ CallAppendLeft \/ CallInsert \/ CallRemove \/ CallPop \/ CallPopLeft

SpecList == Init /\ [][NextList]_vars

----------------------------------------------------------------------------
\* Properties.  In Spec every state is a state between calls of the public
\* methods or at the return of one (pc = "ret", before control goes back).

Me == MainThread
AtReturn == pc[Me] = "ret"
Indexed == {<<TRUE, p>> : p \in DOMAIN bids} \cup {<<FALSE, p>> : p \in DOMAIN asks}
LevelAt(k) == levels[IF k[1] THEN bids[k[2]] ELSE asks[k[2]]]
RECURSIVE SumQuantity(_, _)
SumQuantity(reg, q) ==
    IF q = <<>> THEN 0
    ELSE (IF Head(q) \in DOMAIN reg THEN reg[Head(q)].quantity ELSE 0)
         + SumQuantity(reg, Tail(q))
Occurrences(q, id) == Cardinality({i \in DOMAIN q : q[i] = id})
Matched == iterations # <<>> /\ \E i \in DOMAIN iterations : iterations[i].fill

\* C1: whenever both sides of the book are non-empty, the best bid price (the
\* largest bid key) is strictly less than the best ask price (the smallest
\* ask key).
C1_NoCrossedBook ==
    (DOMAIN bids # {} /\ DOMAIN asks # {}) => Max(DOMAIN bids) < Min(DOMAIN asks)

\* C1 witness: a call has matched and left both sides of the book non-empty.
C1_Witness == AtReturn /\ Matched /\ DOMAIN bids # {} /\ DOMAIN asks # {}

\* C2: for every indexed price level, the stored quantity equals the sum of
\* the quantities of the orders of its queue that are in the registry.
C2_AggregateConsistency ==
    \A k \in Indexed : LevelAt(k).quantity = SumQuantity(orders, LevelAt(k).orders)

\* C2 witness: after a call that matched, an indexed level holds a tombstone
\* and a live order.
C2_Witness ==
    /\ AtReturn /\ Matched
    /\ \E k \in Indexed :
          /\ \E i \in DOMAIN LevelAt(k).orders : LevelAt(k).orders[i] \notin DOMAIN orders
          /\ \E i \in DOMAIN LevelAt(k).orders : LevelAt(k).orders[i] \in DOMAIN orders

\* C3: every id of the registry is exactly once in the queue of exactly one
\* indexed level, which is the level of the order's side at the order's
\* price; an id of a queue that is not in the registry is one that cancel
\* removed.
C3_RegistryLevelDuality ==
    /\ \A id \in DOMAIN orders :
          /\ orders[id].id = id
          /\ \E k \in Indexed :
                /\ Occurrences(LevelAt(k).orders, id) = 1
                /\ k = <<orders[id].is_bid, orders[id].price>>
                /\ LevelAt(k).price = orders[id].price
                /\ \A k2 \in Indexed \ {k} : Occurrences(LevelAt(k2).orders, id) = 0
    /\ \A k \in Indexed : \A i \in DOMAIN LevelAt(k).orders :
          LevelAt(k).orders[i] \notin DOMAIN orders => LevelAt(k).orders[i] \in cancelled

\* C3 witness: the registry holds a bid and an ask, and an indexed level
\* holds a tombstone.
C3_Witness ==
    /\ \E a, b \in DOMAIN orders : orders[a].is_bid /\ ~orders[b].is_bid
    /\ \E k \in Indexed : \E i \in DOMAIN LevelAt(k).orders :
          LevelAt(k).orders[i] \notin DOMAIN orders

\* The call of thread t ended by raising an exception.
Raised(t) == ret[t].kind \notin {"pending", "id", "None"}

\* C4: the ids given to orders are 0, 1, 2, ... in the order given, so each
\* is greater than all given before and none is given twice, with the calls
\* of several threads interleaved; bid and ask (also when update calls them)
\* return the id given, whether the order rested or was filled; update
\* returns the id of the order it replaced its order with.  (A call that
\* raises returns nothing: Raised.)
C4_MonotonicIds ==
    /\ \A i \in DOMAIN allocated : allocated[i] = i - 1
    /\ \A t \in Threads : order[t].id # NoLevel => order[t].id \in Range(allocated)
    /\ \A t, u \in Threads : t # u /\ order[t].id # NoLevel => order[t].id # order[u].id
    /\ \A t \in Threads :
          (/\ pc[t] = "ret" /\ ~Raised(t)
           /\ (call[t].op \in {"bid", "ask"} \/ order[t].id # NoLevel))
              => ret[t] = Ret("id", order[t].id) /\ order[t].id # NoLevel

\* C4 witness: an ask has been filled in full and is about to return its id
\* while another thread's call holds the id given to it before.
C4_Witness ==
    \E t, u \in Threads :
        /\ t # u
        /\ pc[t] = "ret" /\ call[t].op = "ask" /\ order[t].quantity = 0
        /\ ret[t].kind = "id" /\ ret[t].id > 0
        /\ pc[u] # "idle" /\ order[u].id # NoLevel /\ order[u].id < ret[t].id

----------------------------------------------------------------------------
\* The call that is returning, and what it did.

TheCall == call[Me]
Submitted == AtReturn /\ TheCall.op \in {"bid", "ask"}
Fills == {i \in DOMAIN iterations : iterations[i].fill}
Inventory(own, t) == IF asset \in DOMAIN own[t] THEN own[t][asset] ELSE 0

RECURSIVE SumOrders(_, _)
SumOrders(reg, S) ==
    IF S = {} THEN 0
    ELSE LET x == CHOOSE x \in S : TRUE
         IN  reg[x].quantity + SumOrders(reg, S \ {x})

RECURSIVE SumOver(_, _)
SumOver(f, S) ==
    IF S = {} THEN 0
    ELSE LET x == CHOOSE x \in S : TRUE
         IN  f[x] + SumOver(f, S \ {x})

\* The orders of registry reg that an incoming order of the given side and
\* price crosses: those of the other side at its price or better.
Crossing(reg, is_bid, price) ==
    {id \in DOMAIN reg :
        /\ reg[id].is_bid # is_bid
        /\ IF is_bid THEN reg[id].price <= price ELSE reg[id].price >= price}

\* The quantity the fills of the call took from the incoming order.
Traded == SumOver([i \in Fills |-> iterations[i].order.quantity
                                    - iterations[i].order_after.quantity], Fills)

\* The quantity that the orders of registry reg have lost in registry reg2
\* (an order that has left reg2 has lost all of it).
Decrement(reg, reg2) ==
    SumOver([id \in DOMAIN reg |->
                reg[id].quantity - (IF id \in DOMAIN reg2 THEN reg2[id].quantity ELSE 0)],
            DOMAIN reg)

\* C5: when bid(q, p) or ask(q, p) returns, the quantity traded is the
\* smaller of q and the live quantity that rested on the other side at
\* prices crossing p when the call was made, and the other side has lost
\* exactly that; what is left of q, if anything, rests under the returned id
\* with exactly that quantity as the last order of the queue of its own
\* level, behind the orders that were there; if nothing is left, the id is in
\* the registry neither at the return nor after any fill of the call, and in
\* no queue.
C5_SubmitConsumesCrossing ==
    Submitted =>
        LET c == TheCall
            is_bid == c.op = "bid"
            id == ret[Me].id
            liquidity == SumOrders(pre.orders, Crossing(pre.orders, is_bid, c.price))
            residual == c.quantity - Traded
            k == <<is_bid, c.price>>
        IN  /\ ret[Me].kind = "id" /\ id = pre.order_id
            /\ Traded = Min({c.quantity, liquidity})
            /\ Decrement(pre.orders, orders) = Traded
            /\ SumOrders(orders, Crossing(orders, is_bid, c.price)) = liquidity - Traded
            /\ residual > 0 =>
                  /\ id \in DOMAIN orders
                  /\ orders[id] = Order(is_bid, residual, c.price, id, c.trader)
                  /\ k \in Indexed
                  /\ LevelAt(k).orders =
                        (IF c.price \in DOMAIN order_tree(pre, is_bid)
                         THEN pre.levels[order_tree(pre, is_bid)[c.price]].orders
                         ELSE <<>>) \o <<id>>
            /\ residual = 0 =>
                  /\ id \notin DOMAIN orders
                  /\ \A i \in DOMAIN iterations : id \notin DOMAIN iterations[i].after.orders
                  /\ \A k2 \in Indexed : Occurrences(LevelAt(k2).orders, id) = 0

\* C5 witness: a bid has traded a part of its quantity and what is left of
\* it has come to rest.
C5_Witness ==
    /\ Submitted /\ TheCall.op = "bid" /\ Fills # {}
    /\ ret[Me].id \in DOMAIN orders
    /\ orders[ret[Me].id].quantity < TheCall.quantity

\* C5 third witness: a bid that crossed nothing has come to rest behind an
\* order of its level.
C5_WitnessBehind ==
    /\ Submitted /\ TheCall.op = "bid" /\ Fills = {}
    /\ Len(LevelAt(<<TRUE, TheCall.price>>).orders) > 1

\* C5 second witness: an ask has traded against two levels.
C5_WitnessTwoLevels ==
    /\ Submitted /\ TheCall.op = "ask"
    /\ \E i, j \in Fills : iterations[i].level # iterations[j].level

\* C6: the ids of the queue of a level are in the order the orders arrived
\* (increasing ids); a call leaves what it keeps of a queue in the order it
\* had, behind nothing that is new; and each fill is against the order that,
\* among the live orders of the other side in the book at that moment, has
\* the best price and, at that price, arrived first.
C6_PriceTimePriority ==
    /\ \A k \in Indexed : \A i, j \in DOMAIN LevelAt(k).orders :
          i < j => LevelAt(k).orders[i] < LevelAt(k).orders[j]
    /\ AtReturn =>
          \A k \in Indexed :
              k[2] \in DOMAIN order_tree(pre, k[1]) =>
                  LET old == pre.levels[order_tree(pre, k[1])[k[2]]].orders
                      new == LevelAt(k).orders
                  IN  \E n \in 0..Len(old) :
                          /\ Len(old) - n <= Len(new)
                          /\ SubSeq(old, n + 1, Len(old)) = SubSeq(new, 1, Len(old) - n)
                          /\ \A i \in (Len(old) - n + 1)..Len(new) :
                                new[i] \notin Range(pre.allocated)
    /\ \A i \in Fills :
          LET it == iterations[i]
              reg == it.before.orders
              other == {id \in DOMAIN reg : reg[id].is_bid # it.order.is_bid}
              q == it.before.levels[it.level].orders
          IN  /\ it.head \in other
              /\ \A id \in other :
                    /\ IF it.order.is_bid THEN reg[it.head].price <= reg[id].price
                       ELSE reg[it.head].price >= reg[id].price
                    /\ reg[id].price = reg[it.head].price =>
                          /\ it.head <= id
                          /\ \E m, n \in DOMAIN q : q[m] = it.head /\ q[n] = id /\ m <= n

\* C6 witness: a fill against the first of two live orders of a level.
C6_Witness ==
    /\ AtReturn
    /\ \E i \in Fills :
          LET it == iterations[i]
          IN  \E id \in DOMAIN it.before.orders :
                  /\ id # it.head
                  /\ it.before.orders[id].is_bid = it.before.orders[it.head].is_bid
                  /\ it.before.orders[id].price = it.before.orders[it.head].price

\* C6 second witness: a fill at the better of two prices of the other side.
C6_WitnessBestPrice ==
    /\ AtReturn
    /\ \E i \in Fills :
          LET it == iterations[i]
          IN  \E id \in DOMAIN it.before.orders :
                  /\ it.before.orders[id].is_bid = it.before.orders[it.head].is_bid
                  /\ it.before.orders[id].price # it.before.orders[it.head].price

\* What a fill of `units` at `price` adds to trader t's balance and inventory
\* when the incoming order is O and the head order H: O's trader pays (a bid)
\* or is paid (an ask), and H's trader the opposite.
Sign(O) == IF O.is_bid THEN 1 ELSE -1
CashOf(t, O, H, units) ==
    (IF O.trader = t THEN (-Sign(O)) * H.price * units ELSE 0)
    + (IF H.trader = t THEN Sign(O) * H.price * units ELSE 0)
UnitsOf(t, O, H, units) ==
    (IF O.trader = t THEN Sign(O) * units ELSE 0)
    + (IF H.trader = t THEN (-Sign(O)) * units ELSE 0)

\* C7: in each fill of incoming order O against head order H the quantity
\* traded is min(O.quantity, H.quantity); O, H and the level's quantity go
\* down by exactly that; and the balance of O's trader changes by
\* -sign * H.price * traded and its inventory by sign * traded (sign 1 for a
\* bid, -1 for an ask), those of H's trader by the opposite (a trader on both
\* sides gets both changes), the inventory having an entry for the asset from
\* then on; no other trader's account changes.
C7_FillArithmetic ==
    \A i \in Fills :
        LET it == iterations[i]
            O == it.order
            H == it.before.orders[it.head]
            traded == Min({O.quantity, H.quantity})
        IN  /\ it.order_after = [O EXCEPT !.quantity = O.quantity - traded]
            /\ IF it.head \in DOMAIN it.after.orders
               THEN it.after.orders[it.head] = [H EXCEPT !.quantity = H.quantity - traded]
               ELSE H.quantity - traded = 0
            /\ \A id \in DOMAIN it.before.orders \ {it.head} :
                  id \in DOMAIN it.after.orders /\ it.after.orders[id] = it.before.orders[id]
            /\ it.after.levels[it.level].quantity =
                  it.before.levels[it.level].quantity - traded
            /\ \A t \in Traders :
                  /\ it.after.balance[t] = it.before.balance[t] + CashOf(t, O, H, traded)
                  /\ Inventory(it.after.owned, t) =
                        Inventory(it.before.owned, t) + UnitsOf(t, O, H, traded)
                  /\ t \in {O.trader, H.trader} => asset \in DOMAIN it.after.owned[t]
                  /\ t \notin {O.trader, H.trader} => it.after.owned[t] = it.before.owned[t]

\* C7 witness: a fill at the head order's price, which is not the incoming
\* order's, of a part of the head order, the incoming order having a trader.
C7_Witness ==
    /\ AtReturn
    /\ \E i \in Fills :
          LET it == iterations[i]
              H == it.before.orders[it.head]
          IN  /\ H.price # it.order.price
              /\ it.order.trader # None
              /\ it.order.quantity < H.quantity
              /\ balance # it.before.balance

\* C7 second witness: a fill whose head order has a trader and whose incoming
\* order has none.
C7_WitnessRestingTrader ==
    /\ AtReturn
    /\ \E i \in Fills :
          /\ iterations[i].before.orders[iterations[i].head].trader # None
          /\ iterations[i].order.trader = None

\* C8: with a trader on every order, the balances of all traders sum to 0
\* and so do their inventories of the asset, in every state and after every
\* fill (a trader on both sides of a fill included); and what a fill takes
\* from the incoming order is what the resting orders lose in it.
C8_Conservation ==
    /\ SumOver(balance, Traders) = 0
    /\ SumOver([t \in Traders |-> Inventory(owned, t)], Traders) = 0
    /\ \A i \in DOMAIN iterations :
          LET it == iterations[i]
          IN  /\ SumOver(it.after.balance, Traders) = 0
              /\ SumOver([t \in Traders |-> Inventory(it.after.owned, t)], Traders) = 0
              /\ it.order.quantity - it.order_after.quantity =
                    Decrement(it.before.orders, it.after.orders)
    /\ AtReturn /\ TheCall.op \in {"bid", "ask"} =>
          Traded = Decrement(pre.orders, orders)

\* C8 witness: a call has traded with the caller's own order and with
\* another trader's, and the accounts have changed.
C8_Witness ==
    /\ AtReturn
    /\ \E i, j \in Fills :
          /\ iterations[i].before.orders[iterations[i].head].trader = iterations[i].order.trader
          /\ iterations[j].before.orders[iterations[j].head].trader # iterations[j].order.trader
    /\ balance["t1"] # 0 /\ Inventory(owned, "t1") # 0

\* The update that is returning found its order, owned by the trader given.
UpdateOfOwn ==
    /\ AtReturn /\ TheCall.op = "update"
    /\ TheCall.order_id \in DOMAIN pre.orders
    /\ pre.orders[TheCall.order_id].trader = TheCall.trader

\* C9: update(id, q', p) of an order of price p and quantity q >= q' > 0
\* returns id, sets the order's quantity to q' and lowers its level's
\* quantity by q - q'; nothing else changes: the other orders, the indices,
\* the queues of all levels, the id counter, the accounts.
C9_UpdateInPlace ==
    (/\ UpdateOfOwn
     /\ pre.orders[TheCall.order_id].price = TheCall.price
     /\ 0 < TheCall.quantity
     /\ TheCall.quantity <= pre.orders[TheCall.order_id].quantity)
    => LET c == TheCall
           o == pre.orders[c.order_id]
           lv == order_tree(pre, o.is_bid)[o.price]
       IN  /\ ret[Me] = Ret("id", c.order_id)
           /\ orders = [pre.orders EXCEPT ![c.order_id].quantity = c.quantity]
           /\ bids = pre.bids /\ asks = pre.asks
           /\ levels = [pre.levels EXCEPT ![lv].quantity = @ - (o.quantity - c.quantity)]
           /\ order_id = pre.order_id /\ allocated = pre.allocated
           /\ lock = pre.lock
           /\ balance = pre.balance /\ owned = pre.owned
           /\ match_history = pre.match_history /\ cancelled = pre.cancelled
           /\ iterations = <<>>

\* C9 witness: a trader's order, not the last of its queue, has been updated
\* to a smaller quantity.
C9_Witness ==
    /\ UpdateOfOwn
    /\ TheCall.trader # None
    /\ pre.orders[TheCall.order_id].price = TheCall.price
    /\ 0 < TheCall.quantity
    /\ TheCall.quantity < pre.orders[TheCall.order_id].quantity
    /\ LET o == pre.orders[TheCall.order_id]
           q == LevelAt(<<o.is_bid, o.price>>).orders
       IN  Len(q) > 1 /\ q[Len(q)] # o.id

\* C10: update(id, q', p') of an order with p' another price, or q' a larger
\* quantity, cancels the order and submits a new one of the same side with
\* q' and p': the id returned is new, greater than every id given before; the
\* old id has left the registry; what the new order did not trade rests under
\* the new id behind the orders of its level.
C10_UpdateReplaces ==
    (/\ UpdateOfOwn
     /\ TheCall.quantity > 0
     /\ \/ pre.orders[TheCall.order_id].price # TheCall.price
        \/ TheCall.quantity > pre.orders[TheCall.order_id].quantity)
    => LET c == TheCall
           o == pre.orders[c.order_id]
           id == ret[Me].id
       IN  /\ ret[Me].kind = "id"
           /\ id # c.order_id
           /\ \A a \in Range(pre.allocated) : id > a
           /\ c.order_id \notin DOMAIN orders
           /\ id \in DOMAIN orders =>
                 /\ orders[id].is_bid = o.is_bid /\ orders[id].price = c.price
                 /\ orders[id].trader = c.trader
                 /\ orders[id].quantity = c.quantity - Traded
                 /\ LET q == LevelAt(<<o.is_bid, c.price>>).orders
                    IN  q[Len(q)] = id
           /\ id \notin DOMAIN orders => Traded = c.quantity

\* The book is the book b: the same indices, the same level at every indexed
\* price, the same registry, id counter, lock, accounts and history.
SameBook(b) ==
    /\ bids = b.bids /\ asks = b.asks
    /\ \A l \in Range(bids) \cup Range(asks) : levels[l] = b.levels[l]
    /\ orders = b.orders
    /\ order_id = b.order_id /\ lock = b.lock
    /\ balance = b.balance /\ owned = b.owned
    /\ match_history = b.match_history

\* C11: update(id, 0, price, trader) returns None and leaves the book that
\* cancel(id, trader) would leave from the same book: an order of that trader
\* is removed, an unknown id or another trader's order is left alone.
C11_UpdateZeroIsCancel ==
    (AtReturn /\ TheCall.op = "update" /\ TheCall.quantity = 0)
    => /\ ret[Me] = Ret("None", NoLevel)
       /\ SameBook(cancel(pre, TheCall.order_id, TheCall.trader))

\* C12: update with a quantity other than 0 raises and changes nothing when
\* the id is not in the registry (the error for an order that does not
\* exist) or when the order's trader is not the trader given (the error for
\* an order of another owner): indices, levels, registry, id counter,
\* accounts and history are those of the book before the call.
C12_UpdateErrors ==
    (AtReturn /\ TheCall.op = "update" /\ TheCall.quantity # 0)
    => /\ TheCall.order_id \notin DOMAIN pre.orders =>
             /\ ret[Me] = Ret("LOBException_not_exist", NoLevel)
             /\ SameBook(pre) /\ levels = pre.levels
             /\ cancelled = pre.cancelled /\ allocated = pre.allocated
       /\ (/\ TheCall.order_id \in DOMAIN pre.orders
           /\ pre.orders[TheCall.order_id].trader # TheCall.trader) =>
             /\ ret[Me] = Ret("LOBException_not_owner", NoLevel)
             /\ SameBook(pre) /\ levels = pre.levels
             /\ cancelled = pre.cancelled /\ allocated = pre.allocated

\* C12 witness: update has raised for an order of another owner, on a book
\* with orders on both sides.
C12_Witness ==
    /\ AtReturn /\ TheCall.op = "update" /\ TheCall.quantity # 0
    /\ ret[Me].kind = "LOBException_not_owner"
    /\ DOMAIN bids # {} /\ DOMAIN asks # {}

\* C12 second witness: update has raised for the id of an order that was
\* cancelled, its id still in a queue.
C12_WitnessUnknown ==
    /\ AtReturn /\ TheCall.op = "update" /\ TheCall.quantity # 0
    /\ ret[Me].kind = "LOBException_not_exist"
    /\ TheCall.order_id \in cancelled
    /\ \E k \in Indexed : Occurrences(LevelAt(k).orders, TheCall.order_id) = 1

\* The cancel that is returning had nothing to cancel: its id was not in the
\* registry, or the order's trader was not the trader given.
CancelOfNothing ==
    /\ AtReturn /\ TheCall.op = "cancel"
    /\ \/ TheCall.order_id \notin DOMAIN pre.orders
       \/ pre.orders[TheCall.order_id].trader # TheCall.trader

\* C13: cancel(id, trader) raises nothing, and changes nothing of the book
\* (indices, levels and their queues, registry, id counter, accounts) when
\* the id is not in the registry (never given, filled, or cancelled before)
\* or when the order's trader is not the trader given; and the same cancel
\* made again after any cancel leaves the book as it is.
C13_CancelNoOp ==
    /\ AtReturn /\ TheCall.op = "cancel" =>
          /\ ret[Me] = Ret("None", NoLevel)
          /\ cancel(Book, TheCall.order_id, TheCall.trader) = Book
    /\ CancelOfNothing =>
          /\ SameBook(pre) /\ levels = pre.levels
          /\ cancelled = pre.cancelled /\ allocated = pre.allocated

\* C13 witness: a cancel by a trader of an order that is not that trader's
\* has returned.
C13_Witness ==
    /\ CancelOfNothing
    /\ TheCall.order_id \in DOMAIN pre.orders
    /\ TheCall.trader # None

\* C13 second witness: a cancel of an order that a match had filled, and a
\* cancel of an order cancelled before, with orders in the book.
C13_WitnessFilled ==
    /\ CancelOfNothing
    /\ TheCall.order_id \in Range(allocated)
    /\ TheCall.order_id \notin DOMAIN orders
    /\ TheCall.order_id \notin cancelled
    /\ orders # EmptyMap

C13_WitnessCancelled ==
    /\ CancelOfNothing
    /\ TheCall.order_id \in pre.cancelled
    /\ orders # EmptyMap

\* The cancel that is returning found its order, owned by the trader given.
CancelOfOwn ==
    /\ AtReturn /\ TheCall.op = "cancel"
    /\ TheCall.order_id \in DOMAIN pre.orders
    /\ pre.orders[TheCall.order_id].trader = TheCall.trader

\* The indexed prices, the quantity of the level at each, and the registry
\* of book b are those of book b0.
SameLevelsAndRegistry(b, b0) ==
    /\ DOMAIN b.bids = DOMAIN b0.bids /\ DOMAIN b.asks = DOMAIN b0.asks
    /\ \A p \in DOMAIN b.bids :
          b.levels[b.bids[p]].quantity = b0.levels[b0.bids[p]].quantity
    /\ \A p \in DOMAIN b.asks :
          b.levels[b.asks[p]].quantity = b0.levels[b0.asks[p]].quantity
    /\ b.orders = b0.orders

\* C14: cancel(id, trader) of a resting order of that trader removes that
\* order and nothing else: the id leaves the registry, the quantity of its
\* level goes down by the order's quantity, the level leaves its index when
\* that makes its quantity <= 0, and all other orders, levels, quantities
\* and queues (that of the order's level too: the id stays in it) are as
\* they were, as are the id counter, the accounts and the history.  Hence a
\* submit that crosses nothing, followed by the cancel of the new order,
\* gives back the indexed prices, the level quantities and the registry.
C14_CancelFrame ==
    /\ CancelOfOwn =>
          LET o == pre.orders[TheCall.order_id]
              lv == order_tree(pre, o.is_bid)[o.price]
              left == pre.levels[lv].quantity - o.quantity
          IN  /\ ret[Me] = Ret("None", NoLevel)
              /\ orders = Remove(pre.orders, o.id)
              /\ IF left <= 0
                 THEN /\ bids = (IF o.is_bid THEN Remove(pre.bids, o.price) ELSE pre.bids)
                      /\ asks = (IF o.is_bid THEN pre.asks ELSE Remove(pre.asks, o.price))
                 ELSE /\ bids = pre.bids /\ asks = pre.asks
                      /\ levels[lv] = [pre.levels[lv] EXCEPT !.quantity = left]
              /\ \A l \in DOMAIN levels \ {lv} : levels[l] = pre.levels[l]
              /\ order_id = pre.order_id /\ allocated = pre.allocated
              /\ lock = pre.lock
              /\ balance = pre.balance /\ owned = pre.owned
              /\ match_history = pre.match_history
              /\ cancelled = pre.cancelled \cup {o.id}
    /\ pc[Me] = "idle" =>
          \A is_bid \in BOOLEAN, quantity \in Quantities, price \in Prices,
             trader \in TraderArgs :
              crossing_level(Book, Order(is_bid, quantity, price, order_id, trader)) = NoLevel
              => LET r == submit(Book, is_bid, quantity, price, trader)
                 IN  /\ r.ret = Ret("id", order_id)
                     /\ r.ret.id \in DOMAIN r.b.orders
                     /\ SameLevelsAndRegistry(cancel(r.b, r.ret.id, trader), Book)

\* C14 witness: a trader's order has been cancelled; it was not the only
\* live order of its level, and there is another level.
C14_Witness ==
    /\ CancelOfOwn /\ TheCall.trader # None
    /\ LET o == pre.orders[TheCall.order_id]
       IN  /\ <<o.is_bid, o.price>> \in Indexed
           /\ Occurrences(LevelAt(<<o.is_bid, o.price>>).orders, o.id) = 1
           /\ Cardinality(Indexed) > 1

\* C14 second witness: the cancel of the only live order of a level, which
\* has left its index.
C14_WitnessLevelRemoved ==
    /\ CancelOfOwn
    /\ LET o == pre.orders[TheCall.order_id]
       IN  <<o.is_bid, o.price>> \notin Indexed
    /\ Indexed # {}

\* C14 third witness: the cancel of the order submitted last, which had
\* crossed nothing, has given back the registry of two calls before.
C14_WitnessRoundTrip ==
    /\ CancelOfOwn
    /\ TheCall.order_id = order_id - 1
    /\ orders # EmptyMap
    /\ \E k \in Indexed :
          /\ Len(LevelAt(k).orders) > 1
          /\ LevelAt(k).orders[Len(LevelAt(k).orders)] = TheCall.order_id

\* Book b with the ids that are not in its registry taken out of its queues.
Purged(b) ==
    [b EXCEPT !.levels =
        [l \in DOMAIN b.levels |->
            [b.levels[l] EXCEPT !.orders = SelectSeq(@, LAMBDA id : id \in DOMAIN b.orders)]]]

\* C15: the id of a cancelled order at the head of a queue is taken out of
\* the queue by the matching loop and nothing else happens: the level's
\* quantity, the incoming order, the registry, the accounts and the history
\* are as before (also with the history recorded); no fill is against a
\* cancelled order; and a bid or an ask returns what it would return, and
\* leaves the book it would leave, had the ids of cancelled orders not been
\* in the queues.
C15_TombstoneSkip ==
    /\ \A i \in DOMAIN iterations :
          LET it == iterations[i]
              recording == [it.before EXCEPT !.record_match_history = TRUE]
          IN  IF it.fill
              THEN it.head \notin it.before.cancelled
              ELSE /\ it.head \in it.before.cancelled
                   /\ it.order_after = it.order
                   /\ it.after = [it.before EXCEPT !.levels[it.level].orders = Tail(@)]
                   /\ match_body(recording, it.order, it.level) =
                         [b |-> [recording EXCEPT !.levels[it.level].orders = Tail(@)],
                          o |-> it.order]
    /\ Submitted =>
          LET r == submit(Purged(pre), TheCall.op = "bid", TheCall.quantity,
                          TheCall.price, TheCall.trader)
              b == Purged(r.b)
          IN  /\ r.ret = ret[Me]
              /\ bids = b.bids /\ asks = b.asks /\ orders = b.orders
              /\ order_id = b.order_id
              /\ balance = b.balance /\ owned = b.owned
              /\ match_history = b.match_history
              /\ \A l \in Range(bids) \cup Range(asks) : Purged(Book).levels[l] = b.levels[l]

\* C15 witness: a trader's bid has met the id of a cancelled order at the
\* head of a queue and has then traded with the live order behind it.
C15_Witness ==
    /\ Submitted /\ TheCall.op = "bid" /\ TheCall.trader # None
    /\ \E i, j \in DOMAIN iterations :
          /\ i < j
          /\ ~iterations[i].fill /\ iterations[j].fill
          /\ iterations[i].level = iterations[j].level
          /\ iterations[j].before.orders[iterations[j].head].trader # None

\* C16: between the calls and at the return of each, every indexed level has
\* a quantity > 0, and so have the levels that best_bid and best_ask give,
\* with a live order in their queues.
C16_NoEmptyLevelIndexed ==
    /\ \A k \in Indexed :
          /\ LevelAt(k).quantity > 0
          /\ \E i \in DOMAIN LevelAt(k).orders : LevelAt(k).orders[i] \in DOMAIN orders
    /\ best_bid(Book) # NoLevel => levels[best_bid(Book)].quantity > 0
    /\ best_ask(Book) # NoLevel => levels[best_ask(Book)].quantity > 0

\* C16 witness: a call has traded all of a level, which has left its index,
\* and there are levels on both sides.
C16_Witness ==
    /\ AtReturn /\ Fills # {}
    /\ \E i \in Fills :
          LET lv == iterations[i].level
          IN  /\ lv \in Range(pre.bids) \cup Range(pre.asks)
              /\ lv \notin Range(bids) \cup Range(asks)
    /\ DOMAIN bids # {} /\ DOMAIN asks # {}

\* C16 second witness: a cancel has taken the last live order of a level,
\* which has left its index with ids still in its queue.
C16_WitnessCancel ==
    /\ CancelOfOwn
    /\ LET o == pre.orders[TheCall.order_id]
           lv == order_tree(pre, o.is_bid)[o.price]
       IN  /\ Len(pre.levels[lv].orders) > 1
           /\ lv \notin Range(bids) \cup Range(asks)

\* The fills of the call, in the order they were made.
FillSeq == SelectSeq(iterations, LAMBDA it : it.fill)

\* C17: with record_match_history set, each fill appends one record to
\* match_history, of the incoming order and the head order as they were
\* just before the fill, and an iteration that is no fill appends none; at
\* the return of a call match_history is what it was at the call followed by
\* the records of the call's fills in their order, so no record is removed,
\* moved or changed; match_history_prices is the sequence of the prices of
\* the fills; with record_match_history not set match_history stays empty.
C17_MatchHistory ==
    /\ ~record_match_history => match_history = <<>>
    /\ record_match_history =>
          /\ \A i \in DOMAIN iterations :
                LET it == iterations[i]
                IN  it.after.match_history =
                        IF it.fill
                        THEN Append(it.before.match_history,
                                    [incoming_order |-> it.order,
                                     matched_order |-> it.before.orders[it.head]])
                        ELSE it.before.match_history
          /\ AtReturn =>
                /\ match_history =
                      pre.match_history \o
                      [i \in DOMAIN FillSeq |->
                          [incoming_order |-> FillSeq[i].order,
                           matched_order |-> FillSeq[i].before.orders[FillSeq[i].head]]]
                /\ match_history_prices(Book) =
                      match_history_prices(pre) \o
                      [i \in DOMAIN FillSeq |-> FillSeq[i].before.orders[FillSeq[i].head].price]
          /\ \A i \in DOMAIN match_history :
                /\ match_history[i].incoming_order.quantity > 0
                /\ match_history[i].matched_order.quantity > 0
                /\ match_history[i].incoming_order.is_bid # match_history[i].matched_order.is_bid

\* C17 witness: a call has added the records of two fills, the second of an
\* incoming order that the first had made smaller.
C17_Witness ==
    /\ AtReturn /\ record_match_history
    /\ Len(match_history) = Len(pre.match_history) + 2
    /\ match_history[Len(match_history)].incoming_order.quantity < TheCall.quantity

\* C17 second witness: a call has added a record to a history that had one,
\* of a head order that the earlier fill had made smaller.
C17_WitnessAppend ==
    /\ AtReturn /\ record_match_history
    /\ pre.match_history # <<>> /\ Len(match_history) > Len(pre.match_history)
    /\ match_history[1].matched_order.id = match_history[2].matched_order.id
    /\ match_history[1].matched_order.quantity > match_history[2].matched_order.quantity

\* C17 third witness: a call has traded on a book that does not record.
C17_WitnessDisabled == AtReturn /\ ~record_match_history /\ Fills # {}

----------------------------------------------------------------------------
\* The threads of SpecThreads.

\* Thread t is between the first and the last access of its call to the
\* book: it has read the id counter (bid, ask) or found its order (cancel)
\* and has a read or a write of the indices, the levels or the registry
\* still to make.
InBook(t) ==
    pc[t] \in {"bid_increment", "add_order", "match_acquire", "match_orders", "match_head",
               "rest", "cancel_level", "cancel_quantity", "cancel_delete"}

\* No call is in progress.
Quiescent == \A t \in Threads : pc[t] \in {"idle", "ret"}

\* C18: a thread that is between the first and the last access of its call
\* to the book holds the lock, so no two threads are there at once.
C18_LockCoverage ==
    /\ \A t \in Threads : InBook(t) => lock
    /\ \A t, u \in Threads : t # u => ~(InBook(t) /\ InBook(u))

\* C19: the calls of the threads are serialisable; a book left by calls made
\* one at a time is not crossed and its level quantities are the sums of
\* their live orders (C1, C2), so this holds whenever no call is in
\* progress; in particular a bid and an ask at crossing prices made at once
\* do not both rest.
C19_Serialisable ==
    Quiescent =>
        /\ C1_NoCrossedBook
        /\ C2_AggregateConsistency

\* C20: a cancel(id) that races with a bid or an ask that trades with order
\* id ends without a fault, also when the match has taken the order out of
\* the registry (the cancel then changes nothing); and with no call in
\* progress every indexed level has the quantity of its live orders, which
\* is > 0.
C20_CancelMatchRace ==
    /\ \A t \in Threads :
          (/\ pc[t] = "ret" /\ call[t].op = "cancel"
           /\ call[t].order_id \in Range(allocated)
           /\ call[t].order_id \notin DOMAIN orders
           /\ call[t].order_id \notin cancelled)
          => ret[t] = Ret("None", NoLevel)
    /\ (Quiescent /\ \A t \in Threads : call[t].op \in {"none", "cancel", "bid", "ask"})
          => /\ C2_AggregateConsistency
             /\ \A k \in Indexed : LevelAt(k).quantity > 0

----------------------------------------------------------------------------
\* The thread has acquired the lock and not released it: between the acquire
\* and the release of bid / ask, or past the acquire of _add_order (unlock is
\* reset when the method has handed control back).
Holds(t) == pc[t] \in {"bid_alloc", "bid_increment"} \/ unlock[t]

\* C21: the lock never deadlocks an operation.  No thread is at an acquire
\* of the lock while it holds the lock; a lock that is held is held by a
\* call in progress, so that a call waiting for it is not waiting for ever;
\* and the lock is free whenever no call is in progress.
C21_NoDeadlock ==
    /\ \A t \in Threads : pc[t] \in {"bid_acquire", "match_acquire"} => ~Holds(t)
    /\ lock => \E t \in Threads : Holds(t) /\ pc[t] # "idle"
    /\ (\A t \in Threads : pc[t] = "idle") => ~lock

----------------------------------------------------------------------------
\* The states of an order id.  Pending is the state of the id of a call in
\* progress, which no state between calls shows.
Resting(b, id) == id \in DOMAIN b.orders
Cancelled(b, id) == id \in b.cancelled /\ ~Resting(b, id)
Filled(b, id) == id \in Range(b.allocated) /\ ~Resting(b, id) /\ id \notin b.cancelled

\* The ids given out by the call that is returning.
NewIds == Range(allocated) \ Range(pre.allocated)

\* The call's fills that emptied the resting order id and took it out of
\* the registry.
FilledBy(id) == {i \in Fills : /\ iterations[i].head = id
                               /\ id \notin DOMAIN iterations[i].after.orders}

\* C22: every order id follows the state machine Pending -> {Filled,
\* Resting}, Resting -> {Resting, Filled, Cancelled}.  An order of the
\* registry has a quantity > 0 and is queued in the indexed level of its side
\* and price; over a call, a resting order that stays keeps its side, price
\* and owner and its quantity does not grow, one that leaves was cancelled
\* or was emptied by a fill (never both), the ids that enter are ids the
\* call was given, the ids it was given end Resting or Filled, and an id that
\* had left stays as it was and takes part in no fill.
C22_OrderStateMachine ==
    /\ \A id \in DOMAIN orders :
          /\ orders[id].id = id /\ orders[id].quantity > 0
          /\ id \in Range(allocated) /\ id \notin cancelled
          /\ orders[id].price \in DOMAIN order_tree(Book, orders[id].is_bid)
          /\ Occurrences(levels[order_tree(Book, orders[id].is_bid)[orders[id].price]].orders,
                         id) = 1
    /\ cancelled \subseteq Range(allocated)
    /\ AtReturn =>
          /\ \A id \in DOMAIN pre.orders \cap DOMAIN orders :
                /\ orders[id].is_bid = pre.orders[id].is_bid
                /\ orders[id].price = pre.orders[id].price
                /\ orders[id].trader = pre.orders[id].trader
                /\ orders[id].quantity <= pre.orders[id].quantity
          /\ \A id \in DOMAIN pre.orders \ DOMAIN orders :
                (id \in cancelled) # (FilledBy(id) # {})
          /\ DOMAIN orders \ DOMAIN pre.orders \subseteq NewIds
          /\ \A id \in NewIds : Resting(Book, id) \/ Filled(Book, id)
          /\ \A id \in Range(pre.allocated) \ DOMAIN pre.orders :
                /\ ~Resting(Book, id)
                /\ Cancelled(Book, id) = Cancelled(pre, id)
                /\ Filled(Book, id) = Filled(pre, id)
                /\ \A i \in Fills : iterations[i].head # id /\ iterations[i].order.id # id
          /\ \A i \in Fills : /\ iterations[i].head \in DOMAIN pre.orders
                                /\ iterations[i].order.id \in NewIds

\* C22 witness: one call has emptied a resting order (Resting -> Filled),
\* lowered another (Resting -> Resting) and its own order was filled in full
\* (Pending -> Filled).
C22_Witness ==
    /\ AtReturn
    /\ \E id \in DOMAIN pre.orders \ DOMAIN orders : FilledBy(id) # {}
    /\ \E id \in DOMAIN pre.orders \cap DOMAIN orders :
          orders[id].quantity < pre.orders[id].quantity
    /\ \E id \in NewIds : Filled(Book, id)

\* C22 witness: an update has replaced an order: the old id is Cancelled and
\* the new one Resting.
C22_WitnessReplace ==
    /\ AtReturn /\ TheCall.op = "update"
    /\ \E id \in DOMAIN pre.orders : Cancelled(Book, id) /\ ~Cancelled(pre, id)
    /\ \E id \in NewIds : Resting(Book, id)

\* C22 witness: an id that was cancelled before is named again, by a cancel
\* or an update, and an id that was filled before is still Filled.
C22_WitnessTerminal ==
    /\ AtReturn /\ TheCall.op \in {"cancel", "update"}
    /\ Cancelled(pre, TheCall.order_id)
    /\ \E id \in Range(pre.allocated) : Filled(pre, id)

----------------------------------------------------------------------------
Reverse(q) == [i \in 1..Len(q) |-> q[Len(q) + 1 - i]]
Without(q, i) == [j \in 1..(Len(q) - 1) |-> IF j < i THEN q[j] ELSE q[j + 1]]

\* C23: the DoublyLinkedList keeps its structure under append, append_left,
\* insert, remove, pop and pop_left with any pos: no method raises, length
\* is the number of nodes met from head by next, tail is the last of them,
\* prev from tail meets the same nodes in reverse, head and tail are None
\* exactly when length is 0, and remove(pos) with 0 < pos < length takes out
\* the node at index pos and no other.
C23_ListStructure ==
    /\ dll_call.kind \in {"None", "Node"}
    /\ dll.length = Len(Forward(dll))
    /\ dll.tail = IF Forward(dll) = <<>> THEN NoNode
                  ELSE Forward(dll)[Len(Forward(dll))]
    /\ Backward(dll) = Reverse(Forward(dll))
    /\ (dll.head = NoNode) = (dll.length = 0)
    /\ (dll.tail = NoNode) = (dll.length = 0)
    /\ (/\ dll_call.op = "remove"
        /\ 0 < dll_call.pos /\ dll_call.pos < Len(dll_call.before))
       => Forward(dll) = Without(dll_call.before, dll_call.pos + 1)

====
